---- MODULE Spec2Model ----
(***************************************************************************)
(* Model of the ATM locator's location-discovery pipeline:                 *)
(*   - overpassQuery  (multi-endpoint POI query with retry / failover)     *)
(*   - geocodePlace   (Nominatim geocoder with throttle and cache)         *)
(* Every action is one run-to-completion segment of the JavaScript code,   *)
(* i.e. the code between two await points.                                 *)
(***************************************************************************)
EXTENDS Integers, Sequences, FiniteSets, TLC

VARIABLES
    \* ---- overpassQuery (one invocation at a time; invocations share nothing)
    opc,          \* position of the invocation: idle / sleep / fetch / text / json / returned / raised
    endpoint,     \* index into OVERPASS_ENDPOINTS of the outer loop
    dIdx,         \* index into delays of the inner loop
    lastErr,      \* the local variable lastErr
    res,          \* status of the response being handled
    oresult,      \* value returned, or error thrown, by the invocation
    reqLog,       \* history: the requests sent by this invocation, [ep, wait]
    lastOutcome,  \* history: outcome of the most recent attempt
    failKinds,    \* history: the outcomes of the failed attempts of this invocation
    nOk,          \* history: number of attempts that ended in a parsed response
    calls,        \* history: number of invocations started
    prevEnd,      \* history: how the previous invocation ended
    \* ---- geocodePlace (several invocations interleaved at their awaits)
    now,                  \* Date.now()
    lastNominatimCallAt,  \* module-level throttle timestamp
    geoCache,             \* module-level Map: normalized key -> result (or null)
    gpc,          \* per invocation: idle / sleep / fetch / text / json / done / failed
    gquery,       \* per invocation: the query argument
    wakeAt,       \* per invocation: time at which its sleep timer is due
    gret,         \* per invocation: value returned
    netCalls,     \* history: network calls to the geocoder, [p, q, at]
    doneBefore,   \* history: per invocation, the invocations finished when it started
    \* ---- findAtms / findBoaAtms (ranking of the elements of an Overpass answer)
    fpc,          \* "ready", or the function that has produced items
    origin,       \* the arguments lat, lon
    elements,     \* data.elements of the Overpass answer
    limit,        \* the argument limit
    items,        \* the array returned
    \* ---- the tool handlers (one request per behaviour)
    build,        \* which server runs: src/server.js, or 1.0.0 / 0.2.0 / 0.1.0 of part_000
    SERPAPI_KEY,  \* process.env.SERPAPI_KEY
    tpc,          \* position of the handler: idle / fetch / text / json / overpass / done
    tinput,       \* the arguments query and limit
    sent,         \* history: the requests sent to SerpApi, [q, api_key]
    status,       \* res.status of the response being handled
    upstream,     \* history: how the upstream call ended
    raw,          \* the records received (local_results, or elements)
    matched,      \* history: the positions in raw the brand filter let through
    response,     \* what the handler gives back
    timer,        \* ms left on the timer of fetchWithTimeout, NoTimer when none is set
    waited,       \* history: ms since the request to SerpApi was sent
    \* ---- haversineMeters applied to a pair of points
    hav,          \* the two points and, once computed, the distances between them
    \* ---- the /mcp endpoint of the 1.0.0 server
    sessions,     \* the Map sessions: session id -> transport
    mreq,         \* per request: position, session id, method, transports created / used
    created,      \* history: the transports constructed, [sid, by]
    \* ---- GET /sse and POST /messages of src/server.js
    transports,   \* the Map transports: session id -> transport
    conn,         \* per SSE connection: "none", "accepted", "connected", "closed"
    posts         \* history: the POST /messages requests answered

ovars == <<opc, endpoint, dIdx, lastErr, res, oresult, reqLog, lastOutcome,
           failKinds, nOk, calls, prevEnd>>
gvars == <<now, lastNominatimCallAt, geoCache, gpc, gquery, wakeAt, gret,
           netCalls, doneBefore>>
fvars == <<fpc, origin, elements, limit, items>>
\* everything outside the retry loop and the geocoder
tvars == <<build, SERPAPI_KEY, tpc, tinput, sent, status, upstream, raw, matched, response,
           timer, waited>>
mvars == <<sessions, mreq, created>>
svars == <<transports, conn, posts>>
pvars == <<fvars, tvars, hav, mvars, svars>>
vars == <<opc, endpoint, dIdx, lastErr, res, oresult, reqLog, lastOutcome,
          failKinds, nOk, calls, prevEnd,
          now, lastNominatimCallAt, geoCache, gpc, gquery, wakeAt, gret,
          netCalls, doneBefore,
          fpc, origin, elements, limit, items,
          build, SERPAPI_KEY, tpc, tinput, sent, status, upstream, raw, matched, response,
          timer, waited, hav,
          sessions, mreq, created, transports, conn, posts>>

(***************************************************************************)
(* Bounds of the model                                                     *)
(***************************************************************************)
MaxCalls == 2        \* overpassQuery invocations per behaviour
NumProcs == 3        \* geocodePlace invocations per behaviour
TickMs == 550        \* granularity of the clock
MaxTicks == 2        \* clock stops advancing after this many ticks
MaxElements == 3     \* length of the short Overpass answers
MaxExtra == 2        \* the long Overpass answers have up to 31 + MaxExtra elements
MaxRecords == 2      \* records of a short local_results
NumConns == 2         \* SSE connections per behaviour
MaxPosts == 2         \* POST /messages requests per behaviour
NumRequests == 3      \* requests to /mcp per behaviour
NumClientIds == 2     \* session ids that clients send
MaxCoord == 4        \* the points of a distance computation have coordinates in -MaxCoord..MaxCoord
TimerTickMs == 4000  \* granularity of the clock while a SerpApi request is pending
StartTime == 1100    \* Date.now() at the first invocation (>= 1100 past the
                     \* initial lastNominatimCallAt = 0, as any real epoch time is)

(***************************************************************************)
(* overpassQuery                                                           *)
(***************************************************************************)
OVERPASS_ENDPOINTS == <<"overpass-api.de", "overpass.kumi.systems", "overpass.private.coffee">>
NumEndpoints == Len(OVERPASS_ENDPOINTS)

\* faulty variant: a fourth attempt per endpoint
delaysFour == <<0, 600, 1200, 2400>>

\* const delays = [0, 600, 1200]
delays == <<0, 600, 1200>>

\* what the upstream can answer
Statuses == {200, 400, 429, 500, 504}
TextBodies == {"", "busy"}          \* res.text().catch(() => "")
JsonBodies == {"dataA", "dataB"}    \* parsed bodies

NoErr == [kind |-> "undefined", status |-> 0, txt |-> "", id |-> 0]
GenericErr == [kind |-> "generic", status |-> 0, txt |-> "", id |-> 0]
\* new Error(`Overpass error: ${res.status} ${txt}`); id is the attempt that
\* created the object (object identity)
HttpErr(s, txt, n) == [kind |-> "http", status |-> s, txt |-> txt, id |-> n]
\* rejection of fetch() (network exception)
FetchErr(n) == [kind |-> "fetch", status |-> 0, txt |-> "", id |-> n]
\* rejection of res.json() (unparseable body)
JsonErr(n) == [kind |-> "json", status |-> 0, txt |-> "", id |-> n]

ResOk(s) == s \in 200..299

\* outcome of one attempt, as recorded in the history variables
NoOutcome == [k |-> "none", s |-> 0, b |-> ""]
HttpFail(s) == [k |-> "http", s |-> s, b |-> ""]
NetFail == [k |-> "neterr", s |-> 0, b |-> ""]
BadJson == [k |-> "badjson", s |-> 200, b |-> ""]
Parsed(body) == [k |-> "ok", s |-> 200, b |-> body]

\* if (res.status === 429 || res.status === 504)
RetryStatus(s) == s = 429 \/ s = 504

\* faulty variant: gives up after the first endpoint is exhausted
NextPosFailFast(e, i) ==
    IF i < Len(delays) THEN [e |-> e, i |-> i + 1] ELSE [e |-> NumEndpoints + 1, i |-> 1]

\* faulty variant: loops nested the other way round (endpoints inside delays)
NextPosEndpointFirst(e, i) ==
    IF e < NumEndpoints
    THEN [e |-> e + 1, i |-> i]
    ELSE [e |-> IF i < Len(delays) THEN 1 ELSE NumEndpoints + 1, i |-> i + 1]

\* the loop position that follows position (e, i) of the nested for loops
NextPos(e, i) ==
    IF i < Len(delays) THEN [e |-> e, i |-> i + 1] ELSE [e |-> e + 1, i |-> 1]

\* throw lastErr || new Error("Overpass error: all endpoints failed")
Thrown(err) == IF err # NoErr THEN err ELSE GenericErr

\* faulty variant: lastErr = lastErr || e
CaughtKeepFirst(prev, e) == IF prev = NoErr THEN e ELSE prev

\* catch (e) { lastErr = e; }
Caught(prev, e) == e

\* Enter the loop body at position (e, i) with lastErr = err: leave the loops
\* and throw, or sleep(d), or (d = 0) send the request at once.
Enter(e, i, err) ==
    /\ lastErr' = err
    /\ IF e > NumEndpoints
       THEN /\ opc' = "raised"
            /\ oresult' = Thrown(err)
            /\ UNCHANGED <<endpoint, dIdx, reqLog>>
       ELSE /\ endpoint' = e
            /\ dIdx' = i
            /\ UNCHANGED oresult
            /\ IF delays[i] # 0
               THEN opc' = "sleep" /\ UNCHANGED reqLog
               ELSE /\ opc' = "fetch"
                    /\ reqLog' = Append(reqLog, [ep |-> e, wait |-> 0])

\* an attempt failed with error e: record it and go round the inner loop
Fail(e, kind) ==
    /\ lastOutcome' = kind
    /\ failKinds' = failKinds \cup {kind}
    /\ LET np == NextPos(endpoint, dIdx) IN Enter(np.e, np.i, e)

InitOverpass ==
    /\ opc = "idle"
    /\ endpoint = 0
    /\ dIdx = 0
    /\ lastErr = NoErr
    /\ res = 0
    /\ oresult = NoErr
    /\ reqLog = <<>>
    /\ lastOutcome = NoOutcome
    /\ failKinds = {}
    /\ nOk = 0
    /\ calls = 0
    /\ prevEnd = [pc |-> "none", ep |-> 0]

\* overpassQuery(query) is invoked: let lastErr; first iteration of both loops
OCall ==
    /\ opc \in {"idle", "returned", "raised"}
    /\ calls < MaxCalls
    /\ calls' = calls + 1
    /\ prevEnd' = [pc |-> opc, ep |-> endpoint]
    /\ res' = 0
    /\ lastOutcome' = NoOutcome
    /\ failKinds' = {}
    /\ nOk' = 0
    /\ lastErr' = NoErr
    /\ endpoint' = 1
    /\ dIdx' = 1
    /\ oresult' = NoErr
    /\ IF delays[1] # 0
       THEN opc' = "sleep" /\ reqLog' = <<>>
       ELSE opc' = "fetch" /\ reqLog' = <<[ep |-> 1, wait |-> 0]>>
    /\ UNCHANGED <<gvars, pvars>>

\* await sleep(d) is over: the request is sent
OWake ==
    /\ opc = "sleep"
    /\ opc' = "fetch"
    /\ reqLog' = Append(reqLog, [ep |-> endpoint, wait |-> delays[dIdx]])
    /\ UNCHANGED <<endpoint, dIdx, lastErr, res, oresult, lastOutcome, failKinds,
                   nOk, calls, prevEnd>>
    /\ UNCHANGED <<gvars, pvars>>

\* await fetch(...) resolves with a response of status s
OFetchResolve(s) ==
    /\ opc = "fetch"
    /\ res' = s
    /\ opc' = IF ResOk(s) THEN "json" ELSE "text"
    /\ UNCHANGED <<endpoint, dIdx, lastErr, oresult, reqLog, lastOutcome, failKinds,
                   nOk, calls, prevEnd>>
    /\ UNCHANGED <<gvars, pvars>>

\* await fetch(...) rejects: catch (e) { lastErr = e }
OFetchReject ==
    /\ opc = "fetch"
    /\ res' = 0
    /\ Fail(Caught(lastErr, FetchErr(Len(reqLog))), NetFail)
    /\ UNCHANGED <<nOk, calls, prevEnd>>
    /\ UNCHANGED <<gvars, pvars>>

\* !res.ok: await res.text() is over; 429/504 set lastErr and continue, any
\* other status throws inside the try and the catch of the same iteration
\* assigns lastErr
OText(txt) ==
    /\ opc = "text"
    /\ LET msg == HttpErr(res, txt, Len(reqLog)) IN
         IF RetryStatus(res)
         THEN Fail(msg, HttpFail(res))
         ELSE Fail(Caught(lastErr, msg), HttpFail(res))
    /\ UNCHANGED <<res, nOk, calls, prevEnd>>
    /\ UNCHANGED <<gvars, pvars>>

\* faulty variant: the parsed body is not returned, the loop goes on
OJsonOkContinue(body) ==
    /\ opc = "json"
    /\ lastOutcome' = Parsed(body)
    /\ nOk' = nOk + 1
    /\ LET np == NextPos(endpoint, dIdx) IN Enter(np.e, np.i, lastErr)
    /\ UNCHANGED <<res, failKinds, calls, prevEnd>>
    /\ UNCHANGED <<gvars, pvars>>

\* return await res.json(): the body parses
OJsonOk(body) ==
    /\ opc = "json"
    /\ opc' = "returned"
    /\ oresult' = body
    /\ lastOutcome' = Parsed(body)
    /\ nOk' = nOk + 1
    /\ UNCHANGED <<endpoint, dIdx, lastErr, res, reqLog, failKinds, calls, prevEnd>>
    /\ UNCHANGED <<gvars, pvars>>

\* await res.json() rejects: catch (e) { lastErr = e }
OJsonReject ==
    /\ opc = "json"
    /\ Fail(Caught(lastErr, JsonErr(Len(reqLog))), BadJson)
    /\ UNCHANGED <<res, nOk, calls, prevEnd>>
    /\ UNCHANGED <<gvars, pvars>>

NextOverpass ==
    \/ OCall
    \/ OWake
    \/ \E s \in Statuses : OFetchResolve(s)
    \/ OFetchReject
    \/ \E txt \in TextBodies : OText(txt)
    \/ \E body \in JsonBodies : OJsonOk(body)
    \/ OJsonReject

(***************************************************************************)
(* geocodePlace                                                            *)
(***************************************************************************)
Procs == 1..NumProcs

\* queries are strings, modelled as sequences of characters
QuerySet == { <<"a", "b">>, <<" ", "A", "b">>, <<"c", "d">>, <<" ", " ">> }

IsSpace(c) == c = " "
Upper == <<"A", "B", "C", "D", "E", "F", "G", "H", "I", "J", "K", "L", "M",
           "N", "O", "P", "Q", "R", "S", "T", "U", "V", "W", "X", "Y", "Z">>
Lower == <<"a", "b", "c", "d", "e", "f", "g", "h", "i", "j", "k", "l", "m",
           "n", "o", "p", "q", "r", "s", "t", "u", "v", "w", "x", "y", "z">>

\* the lower-case letter of each upper-case letter
LowerOf == [c \in {Upper[n] : n \in 1..26} |-> Lower[CHOOSE n \in 1..26 : Upper[n] = c]]
LowerChar(c) == IF c \in DOMAIN LowerOf THEN LowerOf[c] ELSE c

RECURSIVE TrimStart(_)
TrimStart(s) == IF s # <<>> /\ IsSpace(Head(s)) THEN TrimStart(Tail(s)) ELSE s

RECURSIVE TrimEnd(_)
TrimEnd(s) ==
    IF s # <<>> /\ IsSpace(s[Len(s)]) THEN TrimEnd(SubSeq(s, 1, Len(s) - 1)) ELSE s

\* String.prototype.trim
Trim(s) == TrimEnd(TrimStart(s))

\* String.prototype.toLowerCase
ToLowerCase(s) == [i \in 1..Len(s) |-> LowerChar(s[i])]

\* faulty variant: query.trim() without toLowerCase()
CacheKeyTrimOnly(q) == Trim(q)

\* const key = query.trim().toLowerCase()
CacheKey(q) == ToLowerCase(Trim(q))

ThrottleMs == 1100

Max(a, b) == IF a >= b THEN a ELSE b

\* faulty variant: Math.max(0, (now - lastNominatimCallAt) - 1100)
WaitMsSignFlipped(t, last) == Max(0, (t - last) - ThrottleMs)

\* const waitMs = Math.max(0, 1100 - (now - lastNominatimCallAt))
WaitMs(t, last) == Max(0, ThrottleMs - (t - last))

\* what the geocoding upstream can answer
GeoStatuses == {200, 500}
Null == "null"
GeoData == {"empty", "placeA"}   \* the parsed array: [] or [first, ...]

\* data && data.length ? {lat, lon, display_name} : null
GeoResult(data) == IF data # "empty" THEN data ELSE Null

\* faulty variant: if (geoCache.get(key)) instead of geoCache.has(key)
CacheHasTruthy(cache, key) == key \in DOMAIN cache /\ cache[key] # Null

\* geoCache.has(key)
CacheHas(cache, key) == key \in DOMAIN cache

\* geoCache.set(key, result)
CacheSet(cache, key, v) == [k \in DOMAIN cache \cup {key} |-> IF k = key THEN v ELSE cache[k]]

Finished(p) == gpc[p] \in {"done", "failed"}

InitGeo ==
    /\ now = StartTime
    /\ lastNominatimCallAt = 0
    /\ geoCache = <<>>
    /\ gpc = [p \in Procs |-> "idle"]
    /\ gquery = [p \in Procs |-> <<>>]
    /\ wakeAt = [p \in Procs |-> 0]
    /\ gret = [p \in Procs |-> Null]
    /\ netCalls = <<>>
    /\ doneBefore = [p \in Procs |-> {}]

\* lastNominatimCallAt = Date.now(); fetch(url) is started
StartFetch(p, q) ==
    /\ lastNominatimCallAt' = now
    /\ netCalls' = Append(netCalls, [p |-> p, q |-> q, at |-> now])
    /\ gpc' = [gpc EXCEPT ![p] = "fetch"]

\* geocodePlace(q) is invoked: cache lookup, then throttle wait or request
GCall(p, q) ==
    /\ gpc[p] = "idle"
    /\ \A r \in Procs : r < p => gpc[r] # "idle"    \* invocations are numbered in order
    /\ gquery' = [gquery EXCEPT ![p] = q]
    /\ doneBefore' = [doneBefore EXCEPT ![p] = {r \in Procs : Finished(r)}]
    /\ IF CacheHas(geoCache, CacheKey(q))
       THEN /\ gret' = [gret EXCEPT ![p] = geoCache[CacheKey(q)]]
            /\ gpc' = [gpc EXCEPT ![p] = "done"]
            /\ UNCHANGED <<lastNominatimCallAt, netCalls, wakeAt>>
       ELSE IF WaitMs(now, lastNominatimCallAt) # 0
            THEN /\ gpc' = [gpc EXCEPT ![p] = "sleep"]
                 /\ wakeAt' = [wakeAt EXCEPT ![p] = now + WaitMs(now, lastNominatimCallAt)]
                 /\ UNCHANGED <<lastNominatimCallAt, netCalls, gret>>
            ELSE /\ StartFetch(p, q)
                 /\ UNCHANGED <<wakeAt, gret>>
    /\ UNCHANGED <<now, geoCache>>
    /\ UNCHANGED <<ovars, pvars>>

\* await sleep(waitMs) is over (a timer fires at or after its due time)
GWake(p) ==
    /\ gpc[p] = "sleep"
    /\ now >= wakeAt[p]
    /\ StartFetch(p, gquery[p])
    /\ UNCHANGED <<now, geoCache, gquery, wakeAt, gret, doneBefore>>
    /\ UNCHANGED <<ovars, pvars>>

\* await fetch(...) resolves with a response of status s
GFetchResolve(p, s) ==
    /\ gpc[p] = "fetch"
    /\ gpc' = [gpc EXCEPT ![p] = IF ResOk(s) THEN "json" ELSE "text"]
    /\ UNCHANGED <<now, lastNominatimCallAt, geoCache, gquery, wakeAt, gret, netCalls,
                   doneBefore>>
    /\ UNCHANGED <<ovars, pvars>>

\* await fetch(...) rejects: the exception leaves geocodePlace
GFetchReject(p) ==
    /\ gpc[p] = "fetch"
    /\ gpc' = [gpc EXCEPT ![p] = "failed"]
    /\ UNCHANGED <<now, lastNominatimCallAt, geoCache, gquery, wakeAt, gret,
                   netCalls, doneBefore>>
    /\ UNCHANGED <<ovars, pvars>>

\* faulty variant: a failed call leaves a not-found entry under its key
GTextCachesNull(p) ==
    /\ gpc[p] = "text"
    /\ geoCache' = CacheSet(geoCache, CacheKey(gquery[p]), Null)
    /\ gpc' = [gpc EXCEPT ![p] = "failed"]
    /\ UNCHANGED <<now, lastNominatimCallAt, gquery, wakeAt, gret,
                   netCalls, doneBefore>>
    /\ UNCHANGED <<ovars, pvars>>

\* !res.ok: await res.text() is over, throw new Error("Nominatim error: ...")
GText(p) ==
    /\ gpc[p] = "text"
    /\ gpc' = [gpc EXCEPT ![p] = "failed"]
    /\ UNCHANGED <<now, lastNominatimCallAt, geoCache, gquery, wakeAt, gret,
                   netCalls, doneBefore>>
    /\ UNCHANGED <<ovars, pvars>>

\* await res.json() resolves: build result, geoCache.set(key, result), return
GJson(p, data) ==
    /\ gpc[p] = "json"
    /\ geoCache' = CacheSet(geoCache, CacheKey(gquery[p]), GeoResult(data))
    /\ gret' = [gret EXCEPT ![p] = GeoResult(data)]
    /\ gpc' = [gpc EXCEPT ![p] = "done"]
    /\ UNCHANGED <<now, lastNominatimCallAt, gquery, wakeAt, netCalls,
                   doneBefore>>
    /\ UNCHANGED <<ovars, pvars>>

\* await res.json() rejects: the exception leaves geocodePlace
GJsonReject(p) ==
    /\ gpc[p] = "json"
    /\ gpc' = [gpc EXCEPT ![p] = "failed"]
    /\ UNCHANGED <<now, lastNominatimCallAt, geoCache, gquery, wakeAt, gret,
                   netCalls, doneBefore>>
    /\ UNCHANGED <<ovars, pvars>>

\* time passes
Tick ==
    /\ now < StartTime + MaxTicks * TickMs
    /\ now' = now + TickMs
    /\ UNCHANGED <<lastNominatimCallAt, geoCache, gpc, gquery, wakeAt, gret,
                   netCalls, doneBefore>>
    /\ UNCHANGED <<ovars, pvars>>

NextGeo ==
    \/ \E p \in Procs, q \in QuerySet : GCall(p, q)
    \/ \E p \in Procs : GWake(p)
    \/ \E p \in Procs, s \in GeoStatuses : GFetchResolve(p, s)
    \/ \E p \in Procs : GFetchReject(p)
    \/ \E p \in Procs : GText(p)
    \/ \E p \in Procs, data \in GeoData : GJson(p, data)
    \/ \E p \in Procs : GJsonReject(p)
    \/ Tick

(***************************************************************************)
(* findAtms / findBoaAtms: map, filter, sort, slice                        *)
(***************************************************************************)
\* JavaScript values that can stand where a coordinate is expected
Undefined == [t |-> "undefined", v |-> 0]
Num(n) == [t |-> "number", v |-> n]
Str(n) == [t |-> "string", v |-> n]     \* e.g. "12.5"
TypeOf(x) == x.t

Abs(n) == IF n < 0 THEN 0 - n ELSE n

\* faulty variant: the difference keeps its sign
haversineMetersSigned(lat1, lon1, lat2, lon2) ==
    IF lon1 = lon2 THEN lat2 - lat1 ELSE lon2 - lon1

\* Coordinates are counted in half metres of arc.  For two points on one
\* meridian the great circle distance 2R asin(sqrt(a)) is R |lat2 - lat1|,
\* and for two points on the equator it is R |lon2 - lon1|; the model's
\* points lie on the meridian or on the equator of the origin.  The value is
\* the distance in half metres.
haversineMeters(lat1, lon1, lat2, lon2) ==
    IF lon1 = lon2 THEN Abs(lat2 - lat1) ELSE Abs(lon2 - lon1)

\* Math.round of h half metres (h >= 0): x.5 rounds up
MathRound(h) == (h + 1) \div 2

\* el.type === "node" ? el.lat : el.center && el.center.lat
CenterLat(el) ==
    IF el.type = "node" THEN el.lat ELSE IF el.center THEN el.clat ELSE Undefined

\* el.type === "node" ? el.lon : el.center && el.center.lon
CenterLon(el) ==
    IF el.type = "node" THEN el.lon ELSE IF el.center THEN el.clon ELSE Undefined

NullItem == [null |-> TRUE, location |-> [lat |-> 0, lon |-> 0], distance_m |-> 0,
             osm |-> [type |-> "", id |-> 0]]

\* the callback of elements.map
MapElement(lat, lon, el) ==
    IF TypeOf(CenterLat(el)) # "number" \/ TypeOf(CenterLon(el)) # "number"
    THEN NullItem
    ELSE [null |-> FALSE,
          location |-> [lat |-> CenterLat(el).v, lon |-> CenterLon(el).v],
          distance_m |-> MathRound(haversineMeters(lat, lon, CenterLat(el).v, CenterLon(el).v)),
          osm |-> [type |-> el.type, id |-> el.id]]

\* Array.prototype.map
MapElements(lat, lon, els) == [i \in 1..Len(els) |-> MapElement(lat, lon, els[i])]

\* Array.prototype.filter(Boolean)
RECURSIVE FilterBoolean(_)
FilterBoolean(xs) ==
    IF xs = <<>> THEN <<>>
    ELSE IF Head(xs).null THEN FilterBoolean(Tail(xs))
    ELSE <<Head(xs)>> \o FilterBoolean(Tail(xs))

\* (a, b) => a.distance_m - b.distance_m
CompareDistance(a, b) == a.distance_m - b.distance_m

\* faulty variant: x goes in front of the elements it compares equal to
RECURSIVE InsertSortedBeforeEqual(_, _)
InsertSortedBeforeEqual(x, xs) ==
    IF xs = <<>> THEN <<x>>
    ELSE IF CompareDistance(Head(xs), x) >= 0 THEN <<x>> \o xs
    ELSE <<Head(xs)>> \o InsertSortedBeforeEqual(x, Tail(xs))

\* insert x into the sorted xs behind every element that does not compare greater
RECURSIVE InsertSorted(_, _)
InsertSorted(x, xs) ==
    IF xs = <<>> THEN <<x>>
    ELSE IF CompareDistance(Head(xs), x) > 0 THEN <<x>> \o xs
    ELSE <<Head(xs)>> \o InsertSorted(x, Tail(xs))

\* Array.prototype.sort with CompareDistance (a stable sort)
RECURSIVE SortByDistance(_)
SortByDistance(xs) ==
    IF xs = <<>> THEN <<>>
    ELSE InsertSorted(xs[Len(xs)], SortByDistance(SubSeq(xs, 1, Len(xs) - 1)))

Min(a, b) == IF a <= b THEN a ELSE b

\* faulty variant: the limit is used as given
ClampLimitNone(n) == n

\* Math.max(1, Math.min(limit, 25))
ClampLimit(n) == Max(1, Min(n, 25))

\* Array.prototype.slice(0, n) for an integer n
Slice0(xs, n) ==
    IF n >= 0 THEN SubSeq(xs, 1, Min(n, Len(xs)))
    ELSE SubSeq(xs, 1, Max(Len(xs) + n, 0))

\* faulty variant: truncation before the sort
findAtmsSliceFirst(lat, lon, els, n) ==
    SortByDistance(Slice0(FilterBoolean(MapElements(lat, lon, els)), ClampLimit(n)))

\* faulty variant: elements without coordinates are dropped after truncation
findBoaAtmsFilterLast(lat, lon, els, n) ==
    FilterBoolean(Slice0(SortByDistance(MapElements(lat, lon, els)), ClampLimit(n)))

\* findAtms, from the answer of overpassQuery on
findAtms(lat, lon, els, n) ==
    Slice0(SortByDistance(FilterBoolean(MapElements(lat, lon, els))), ClampLimit(n))

\* findBoaAtms, from the answer of overpassQuery on
findBoaAtms(lat, lon, els, n) ==
    Slice0(SortByDistance(FilterBoolean(MapElements(lat, lon, els))), ClampLimit(n))

\* the shapes an element of the answer can have (id is set from its position)
ElementShapes ==
    { [type |-> "node", lat |-> Num(0), lon |-> Num(0), center |-> FALSE,
       clat |-> Undefined, clon |-> Undefined],
      [type |-> "node", lat |-> Num(1), lon |-> Num(0), center |-> FALSE,
       clat |-> Undefined, clon |-> Undefined],
      [type |-> "node", lat |-> Num(0), lon |-> Num(2), center |-> FALSE,
       clat |-> Undefined, clon |-> Undefined],
      [type |-> "node", lat |-> Num(0 - 5), lon |-> Num(0), center |-> FALSE,
       clat |-> Undefined, clon |-> Undefined],
      [type |-> "node", lat |-> Undefined, lon |-> Num(0), center |-> TRUE,
       clat |-> Num(1), clon |-> Num(0)],
      [type |-> "node", lat |-> Str(1), lon |-> Num(0), center |-> FALSE,
       clat |-> Undefined, clon |-> Undefined],
      [type |-> "way", lat |-> Undefined, lon |-> Undefined, center |-> TRUE,
       clat |-> Num(3), clon |-> Num(0)],
      [type |-> "way", lat |-> Num(1), lon |-> Num(0), center |-> FALSE,
       clat |-> Undefined, clon |-> Undefined],
      [type |-> "relation", lat |-> Undefined, lon |-> Undefined, center |-> TRUE,
       clat |-> Num(4), clon |-> Undefined] }

WithId(shape, i) ==
    [type |-> shape.type, lat |-> shape.lat, lon |-> shape.lon, center |-> shape.center,
     clat |-> shape.clat, clon |-> shape.clon, id |-> i]

\* short answers of every composition
ShortAnswers ==
    UNION { {[i \in 1..n |-> WithId(f[i], i)] : f \in [1..n -> ElementShapes]} : n \in 0..MaxElements }

\* long answers: elements along the meridian, the nearest ones last, every
\* fifth one a way without center
LongAnswer(n) ==
    [i \in 1..n |->
        [type |-> IF i % 5 = 0 THEN "way" ELSE "node",
         lat |-> Num(n - i), lon |-> Num(0), center |-> FALSE,
         clat |-> Undefined, clon |-> Undefined, id |-> i]]

LongAnswers == {LongAnswer(n) : n \in 24..(31 + MaxExtra)}

Limits == {0 - 1, 0, 1, 2, 3, 5, 25, 26, 40}

IdleRank ==
    /\ fpc = "ready"
    /\ origin = [lat |-> 0, lon |-> 0]
    /\ elements = <<>>
    /\ limit = 1
    /\ items = <<>>

InitRank ==
    /\ fpc = "ready"
    /\ origin \in {[lat |-> 0, lon |-> 0], [lat |-> 2, lon |-> 0]}
    /\ elements \in ShortAnswers \cup LongAnswers
    /\ limit \in Limits
    /\ items = <<>>

\* findAtms(lat, lon, radiusM, limit) once overpassQuery has answered
FindAtms ==
    /\ fpc = "ready"
    /\ items' = findAtms(origin.lat, origin.lon, elements, limit)
    /\ fpc' = "findAtms"
    /\ UNCHANGED <<origin, elements, limit>>
    /\ UNCHANGED <<ovars, gvars, tvars, hav, mvars, svars>>

\* findBoaAtms(lat, lon, radiusM, limit) once overpassQuery has answered
FindBoaAtms ==
    /\ fpc = "ready"
    /\ items' = findBoaAtms(origin.lat, origin.lon, elements, limit)
    /\ fpc' = "findBoaAtms"
    /\ UNCHANGED <<origin, elements, limit>>
    /\ UNCHANGED <<ovars, gvars, tvars, hav, mvars, svars>>

NextRank == FindAtms \/ FindBoaAtms

(***************************************************************************)
(* The tools: locate_atms over serpApiMapsSearch (src/server.js and the    *)
(* 1.0.0 server of part_000), find_atms (0.2.0) and find_boa_atms (0.1.0). *)
(* A string that the code searches is a sequence of characters.  A text    *)
(* field of an upstream record is only ever tested for truthiness before   *)
(* it is used, so an absent field and "" are both the empty sequence.      *)
(***************************************************************************)
Builds == {"server.js", "1.0.0", "0.2.0", "0.1.0"}
SerpBuilds == {"server.js", "1.0.0"}

\* String.prototype.includes
Includes(t, p) == \E i \in 1..(Len(t) - Len(p) + 1) : SubSeq(t, i, i + Len(p) - 1) = p

\* Array.prototype.filter(Boolean) over strings
RECURSIVE FilterTruthy(_)
FilterTruthy(xs) ==
    IF xs = <<>> THEN <<>>
    ELSE IF Head(xs) = <<>> THEN FilterTruthy(Tail(xs))
    ELSE <<Head(xs)>> \o FilterTruthy(Tail(xs))

\* Array.prototype.join
RECURSIVE Join(_, _)
Join(xs, sep) ==
    IF xs = <<>> THEN <<>>
    ELSE IF Len(xs) = 1 THEN Head(xs)
    ELSE Head(xs) \o sep \o Join(Tail(xs), sep)

\* faulty variant: the text is searched as written
normalizeTextNoLower(s) == s

\* String(s || "").toLowerCase()
normalizeText(s) == ToLowerCase(s)

\* the array joined into hay; categories is an array of strings or absent
Hay(item) ==
    Join(FilterTruthy(<<item.title, item.name, item.description, item.type,
                        Join(item.categories, <<" ">>), item.address>>), <<" ", "|", " ">>)

isBoa(t) ==
    \/ Includes(t, <<"b", "a", "n", "k", " ", "o", "f", " ", "a", "m", "e", "r", "i", "c", "a">>)
    \/ Includes(t, <<"b", "o", "f", "a">>)
    \/ Includes(t, <<"b", "a", "n", "k", "o", "f", "a", "m", "e", "r", "i", "c", "a">>)

isAtm(t) == Includes(t, <<"a", "t", "m">>)

\* looksLikeBoaAtm of src/server.js
looksLikeBoaAtm(item) ==
    LET t == normalizeText(Hay(item))
    IN  isBoa(t) /\ isAtm(t)

\* looksLikeBoaAtm of the 1.0.0 server
looksLikeBoaAtmV1(item) ==
    LET t == normalizeText(Hay(item))
    IN  isBoa(t) /\ (isAtm(t) \/ Includes(t, <<"d", "r", "i", "v", "e">>) \/ Includes(t, <<"c", "a", "s", "h">>))

Matcher(b, item) == IF b = "server.js" THEN looksLikeBoaAtm(item) ELSE looksLikeBoaAtmV1(item)

\* Array.prototype.filter with the matcher of the build
RECURSIVE FilterBoa(_, _)
FilterBoa(b, xs) ==
    IF xs = <<>> THEN <<>>
    ELSE IF Matcher(b, Head(xs)) THEN <<Head(xs)>> \o FilterBoa(b, Tail(xs))
    ELSE FilterBoa(b, Tail(xs))

NoLink == [kind |-> "null", place |-> "", lat |-> 0, lon |-> 0, url |-> ""]

\* toMapsLinkFromPlaceId: null for a falsy id
toMapsLinkFromPlaceId(placeId) ==
    IF placeId = "" THEN NoLink
    ELSE [kind |-> "query_place_id", place |-> placeId, lat |-> 0, lon |-> 0, url |-> ""]

\* toMapsLinkFromLatLon: null unless both are numbers
toMapsLinkFromLatLon(lat, lon) ==
    IF TypeOf(lat) # "number" \/ TypeOf(lon) # "number" THEN NoLink
    ELSE [kind |-> "query", place |-> "", lat |-> lat.v, lon |-> lon.v, url |-> ""]

LinkTo(url) ==
    IF url = "" THEN NoLink
    ELSE [kind |-> "link", place |-> "", lat |-> 0, lon |-> 0, url |-> url]

\* a || b on links
OrLink(a, b) == IF a.kind # "null" THEN a ELSE b

\* the fallback after place id and coordinates
FallbackLink(b, r) ==
    IF b = "server.js" THEN LinkTo(r.directions_link)
    ELSE OrLink(LinkTo(r.directions_link), LinkTo(r.website))

NullLocation == [null |-> TRUE, lat |-> 0, lon |-> 0]

\* the callback of filtered.map
ShapeItem(b, r) ==
    LET lat == IF TypeOf(r.gps.latitude) = "number" THEN r.gps.latitude ELSE Undefined
        lon == IF TypeOf(r.gps.longitude) = "number" THEN r.gps.longitude ELSE Undefined
    IN  [name |-> IF r.title # <<>> THEN r.title
                  ELSE IF r.name # <<>> THEN r.name ELSE <<"B", "a", "n", "k", " ", "o", "f", " ", "A", "m", "e", "r", "i", "c", "a", " ", "A", "T", "M">>,
         location |-> IF TypeOf(lat) = "number" /\ TypeOf(lon) = "number"
                      THEN [null |-> FALSE, lat |-> lat.v, lon |-> lon.v]
                      ELSE NullLocation,
         maps_link |-> OrLink(toMapsLinkFromPlaceId(r.place_id),
                              OrLink(toMapsLinkFromLatLon(lat, lon), FallbackLink(b, r))),
         place_id |-> r.place_id,
         source |-> [data_id |-> r.data_id]]

\* faulty variant: the cap is applied to the raw records, before the filter
serpItemsSliceFirst(b, rs, n) ==
    LET filtered == FilterBoa(b, Slice0(rs, ClampLimit(n)))
    IN  [i \in 1..Len(filtered) |-> ShapeItem(b, filtered[i])]

\* raw.filter(looksLikeBoaAtm).slice(0, Math.max(1, Math.min(limit, 25))).map(...)
serpItems(b, rs, n) ==
    LET filtered == Slice0(FilterBoa(b, rs), ClampLimit(n))
    IN  [i \in 1..Len(filtered) |-> ShapeItem(b, filtered[i])]

\* faulty variant: the prefix is added only to a text that does not name an ATM
RewriteQueryIfAbsent(userQuery) ==
    IF Includes(ToLowerCase(userQuery), <<"a", "t", "m">>) THEN userQuery
    ELSE <<"B", "a", "n", "k", " ", "o", "f", " ", "A", "m", "e", "r", "i", "c", "a", " ", "A", "T", "M", " ", "n", "e", "a", "r", " ">> \o userQuery

\* `Bank of America ATM near ${userQuery}`
RewriteQuery(userQuery) == <<"B", "a", "n", "k", " ", "o", "f", " ", "A", "m", "e", "r", "i", "c", "a", " ", "A", "T", "M", " ", "n", "e", "a", "r", " ">> \o userQuery

\* process.env.SERPAPI_KEY
KeyUnset == [t |-> "undefined", v |-> ""]
KeyValues == {KeyUnset, [t |-> "string", v |-> ""], [t |-> "string", v |-> "secret"]}

\* faulty variant: the key is never looked at
KeyMissingNever(k) == FALSE

\* !SERPAPI_KEY
KeyMissing(k) == k.t = "undefined" \/ k.v = ""

\* ---- errors and responses
Msg(text, st, body) == [text |-> text, status |-> st, body |-> body]
Err(name, message) == [name |-> name, message |-> message]

MissingKeyError(b) ==
    Err("Error", Msg(IF b = "server.js" THEN "Missing SERPAPI_KEY env var"
                     ELSE "Missing SERPAPI_KEY env var. Set it before running the server.",
                     0, ""))
SerpHttpError(s, body) == Err("Error", Msg("SerpApi error: ", s, body))
AbortError == Err("AbortError", Msg("This operation was aborted", 0, ""))
NetworkError == Err("TypeError", Msg("fetch failed", 0, ""))
ParseError == Err("SyntaxError", Msg("Unexpected token", 0, ""))
OverpassError(s) == Err("Error", Msg("Overpass error: ", s, ""))

TimedOutMsg == Msg("SerpApi request timed out. Try a more specific location or retry.", 0, "")

NoResponse == [kind |-> "none"]
\* the JSON text of a successful tool result
ResultResponse(its, q) ==
    [kind |-> "result", count |-> Len(its), items |-> its, rewritten_query |-> q]
\* the JSON text { error, message }
ErrorResponse(error, message) == [kind |-> "error", error |-> error, message |-> message]
\* the handler's promise rejects: the exception leaves the handler
Rejected(err) == [kind |-> "rejected", err |-> err]

\* faulty variant: a failure is answered with an empty result
LocateCatchEmptyResult(b, err) == ResultResponse(<<>>, <<>>)

\* the catch block of the locate_atms handler
LocateCatch(b, err) ==
    IF b = "server.js"
    THEN ErrorResponse("Failed to locate ATMs",
                       IF err.name = "AbortError" THEN TimedOutMsg ELSE err.message)
    ELSE ErrorResponse("Failed to fetch ATMs", err.message)

\* ---- inputs
UserQueries == { <<"n", "y", "c">>, <<"a", "t", "m", " ", "9", "4", "1", "0", "5">>, <<"B", "a", "n", "k", " ", "o", "f", " ", "A", "m", "e", "r", "i", "c", "a", " ", "A", "T", "M", " ", "n", "e", "a", "r", " ", "n", "y", "c">> }

NumericGps == [latitude |-> Num(3), longitude |-> Num(4)]
NoGps == [latitude |-> Undefined, longitude |-> Undefined]

BlankRecord ==
    [title |-> <<>>, name |-> <<>>, description |-> <<>>, type |-> <<>>,
     categories |-> <<>>, address |-> <<>>, gps |-> NumericGps, place_id |-> "",
     directions_link |-> "", website |-> "", data_id |-> 0]

\* the shapes a record of local_results can have (data_id is set from its position)
RecordShapes ==
    { [BlankRecord EXCEPT !.title = <<"B", "a", "n", "k", " ", "o", "f", " ", "A", "m", "e", "r", "i", "c", "a", " ", "A", "T", "M">>, !.place_id = "ChIJ1"],
      [BlankRecord EXCEPT !.title = <<"B", "A", "N", "K", " ", "O", "F", " ", "A", "M", "E", "R", "I", "C", "A">>, !.type = <<"A", "T", "M">>, !.gps = NoGps,
                          !.directions_link = "https://maps/dir"],
      [BlankRecord EXCEPT !.title = <<"C", "h", "a", "s", "e", " ", "A", "T", "M">>, !.description = <<"c", "a", "s", "h", " ", "d", "r", "i", "v", "e", "-", "u", "p">>],
      [BlankRecord EXCEPT !.title = <<"B", "a", "n", "k", " ", "o", "f", " ", "A", "m", "e", "r", "i", "c", "a", " ", "(", "D", "r", "i", "v", "e", "-", "t", "h", "r", "u", ")">>, !.gps = NoGps,
                          !.website = "https://bofa"],
      [BlankRecord EXCEPT !.name = <<"B", "o", "f", "A">>, !.description = <<"C", "a", "s", "h", " ", "w", "i", "t", "h", "d", "r", "a", "w", "a", "l">>],
      [BlankRecord EXCEPT !.categories = << <<"B", "a", "n", "k", " ", "o", "f">>, <<"A", "m", "e", "r", "i", "c", "a", " ", "A", "T", "M">> >>],
      [BlankRecord EXCEPT !.title = <<"B", "a", "n", "k", "O", "f", "A", "m", "e", "r", "i", "c", "a", " ", "b", "r", "a", "n", "c", "h">>, !.type = <<"B", "a", "n", "k">>],
      [BlankRecord EXCEPT !.title = <<"L", "o", "b", "b", "y">>, !.address = <<"b", "a", "n", "k", "o", "f", "a", "m", "e", "r", "i", "c", "a", " ", "A", "t", "m", ",", " ", "5", "t", "h", " ", "A", "v", "e">>,
                          !.gps = [latitude |-> Num(3), longitude |-> Str(4)]] }

WithDataId(shape, i) == [shape EXCEPT !.data_id = i]

\* local_results of up to MaxRecords records
ShortResults ==
    UNION { { [i \in 1..n |-> WithDataId(f[i], i)] : f \in [1..n -> RecordShapes] }
            : n \in 0..MaxRecords }

\* n records, every seventh of another brand
LongResult(n) ==
    [i \in 1..n |->
        WithDataId(IF i % 7 = 0
                   THEN [BlankRecord EXCEPT !.title = <<"C", "h", "a", "s", "e", " ", "A", "T", "M">>]
                   ELSE [BlankRecord EXCEPT !.title = <<"B", "o", "f", "A", " ", "A", "T", "M">>, !.gps = NoGps], i)]

LongResults == {LongResult(n) : n \in {27, 30 + MaxExtra}}

\* the parsed body: local_results is an array, or is not one
SerpData ==
    {[isArray |-> TRUE, local_results |-> rs] : rs \in ShortResults \cup LongResults}
        \cup {[isArray |-> FALSE, local_results |-> <<>>]}

\* the parsed body of Overpass: with elements, or without
OverpassData ==
    {[has |-> TRUE, elements |-> es] :
        es \in {a \in ShortAnswers : Len(a) <= MaxRecords} \cup LongAnswers}
        \cup {[has |-> FALSE, elements |-> <<>>]}

SerpStatuses == {200, 401, 429, 500}
SerpBodies == {"", "Invalid API key"}
ToolOrigin == [lat |-> 0, lon |-> 0]

\* the timeoutMs given to fetchWithTimeout
FetchTimeoutMs == 8000
\* no timer is pending (none was set, or clearTimeout has run)
NoTimer == 0 - 1

IdleTools ==
    /\ build = "server.js"
    /\ SERPAPI_KEY = KeyUnset
    /\ tpc = "off"
    /\ tinput = [query |-> <<>>, limit |-> 1]
    /\ sent = <<>>
    /\ status = 0
    /\ upstream = "none"
    /\ raw = <<>>
    /\ matched = {}
    /\ response = NoResponse
    /\ timer = NoTimer
    /\ waited = 0

InitTools ==
    /\ build \in Builds
    /\ SERPAPI_KEY \in (IF build \in SerpBuilds THEN KeyValues ELSE {KeyUnset})
    /\ tpc = "idle"
    /\ tinput = [query |-> <<>>, limit |-> 1]
    /\ sent = <<>>
    /\ status = 0
    /\ upstream = "none"
    /\ raw = <<>>
    /\ matched = {}
    /\ response = NoResponse
    /\ timer = NoTimer
    /\ waited = 0

\* the handler of locate_atms up to the first await of serpApiMapsSearch
LocateAtms(query, lim) ==
    /\ tpc = "idle"
    /\ build \in SerpBuilds
    /\ tinput' = [query |-> query, limit |-> lim]
    /\ IF build = "server.js" /\ query = <<>>
       THEN /\ response' = ErrorResponse("Missing required field: query", Msg("", 0, ""))
            /\ tpc' = "done"
            /\ UNCHANGED <<sent, upstream>>
       ELSE IF KeyMissing(SERPAPI_KEY)
       THEN /\ response' = LocateCatch(build, MissingKeyError(build))
            /\ tpc' = "done"
            /\ UNCHANGED <<sent, upstream>>
       ELSE /\ sent' = Append(sent, [q |-> RewriteQuery(query), api_key |-> SERPAPI_KEY.v])
            /\ upstream' = "pending"
            /\ tpc' = "fetch"
            /\ UNCHANGED response
    /\ timer' = IF tpc' = "fetch" /\ build = "server.js" THEN FetchTimeoutMs ELSE timer
    /\ UNCHANGED <<build, SERPAPI_KEY, status, raw, matched>>
    /\ UNCHANGED <<ovars, gvars, fvars, waited, hav, mvars, svars>>

\* fetch resolves with a response of status s
SerpFetchResolve(s) ==
    /\ tpc = "fetch"
    /\ build = "server.js" => timer > 0      \* a timer that is due runs first
    /\ timer' = NoTimer                      \* finally { clearTimeout(t) }
    /\ status' = s
    /\ IF ResOk(s)
       THEN tpc' = "json" /\ UNCHANGED upstream
       ELSE tpc' = "text" /\ upstream' = "http"
    /\ UNCHANGED <<build, SERPAPI_KEY, tinput, sent, raw, matched, response>>
    /\ UNCHANGED <<ovars, gvars, fvars, waited, hav, mvars, svars>>

\* fetch rejects: the network failed
SerpFetchReject ==
    /\ tpc = "fetch"
    /\ build = "server.js" => timer > 0
    /\ timer' = NoTimer
    /\ upstream' = "network"
    /\ response' = LocateCatch(build, NetworkError)
    /\ tpc' = "done"
    /\ UNCHANGED <<build, SERPAPI_KEY, tinput, sent, status, raw, matched>>
    /\ UNCHANGED <<ovars, gvars, fvars, waited, hav, mvars, svars>>

\* fetchWithTimeout: the timer fires first and the signal aborts the fetch
SerpFetchAbort ==
    /\ tpc = "fetch"
    /\ build = "server.js"
    /\ timer = 0
    /\ UNCHANGED timer
    /\ upstream' = "timeout"
    /\ response' = LocateCatch(build, AbortError)
    /\ tpc' = "done"
    /\ UNCHANGED <<build, SERPAPI_KEY, tinput, sent, status, raw, matched>>
    /\ UNCHANGED <<ovars, gvars, fvars, waited, hav, mvars, svars>>

\* res.text().catch(() => "") of a non-ok response, then the throw
SerpText(body) ==
    /\ tpc = "text"
    /\ response' = LocateCatch(build, SerpHttpError(status, body))
    /\ tpc' = "done"
    /\ UNCHANGED <<build, SERPAPI_KEY, tinput, sent, status, upstream, raw, matched>>
    /\ UNCHANGED <<ovars, gvars, fvars, timer, waited, hav, mvars, svars>>

\* res.json() resolves: filter, cap, shape, return; the handler answers
SerpJson(data) ==
    /\ tpc = "json"
    /\ upstream' = "ok"
    /\ raw' = IF data.isArray THEN data.local_results ELSE <<>>
    /\ matched' = {i \in DOMAIN raw' : Matcher(build, raw'[i])}
    /\ response' = ResultResponse(serpItems(build, raw', tinput.limit),
                                  RewriteQuery(tinput.query))
    /\ tpc' = "done"
    /\ UNCHANGED <<build, SERPAPI_KEY, tinput, sent, status>>
    /\ UNCHANGED <<ovars, gvars, fvars, timer, waited, hav, mvars, svars>>

\* res.json() rejects
SerpJsonReject ==
    /\ tpc = "json"
    /\ upstream' = "badjson"
    /\ response' = LocateCatch(build, ParseError)
    /\ tpc' = "done"
    /\ UNCHANGED <<build, SERPAPI_KEY, tinput, sent, status, raw, matched>>
    /\ UNCHANGED <<ovars, gvars, fvars, timer, waited, hav, mvars, svars>>

\* the handler of find_atms / find_boa_atms up to the await of overpassQuery
FindTool(lim) ==
    /\ tpc = "idle"
    /\ build \notin SerpBuilds
    /\ tinput' = [query |-> <<>>, limit |-> lim]
    /\ upstream' = "pending"
    /\ tpc' = "overpass"
    /\ UNCHANGED <<build, SERPAPI_KEY, sent, status, raw, matched, response>>
    /\ UNCHANGED <<ovars, gvars, fvars, timer, waited, hav, mvars, svars>>

\* overpassQuery returns the parsed body; the ranking runs and the handler answers
FindToolReturned(data) ==
    /\ tpc = "overpass"
    /\ upstream' = "ok"
    /\ raw' = IF data.has THEN data.elements ELSE <<>>
    /\ response' = ResultResponse(
                       IF build = "0.2.0"
                       THEN findAtms(ToolOrigin.lat, ToolOrigin.lon, raw', tinput.limit)
                       ELSE findBoaAtms(ToolOrigin.lat, ToolOrigin.lon, raw', tinput.limit),
                       <<>>)
    /\ tpc' = "done"
    /\ UNCHANGED <<build, SERPAPI_KEY, tinput, sent, status, matched>>
    /\ UNCHANGED <<ovars, gvars, fvars, timer, waited, hav, mvars, svars>>

\* overpassQuery throws; nothing catches it on the way out of the handler
FindToolRaised(kind, err) ==
    /\ tpc = "overpass"
    /\ upstream' = kind
    /\ response' = Rejected(err)
    /\ tpc' = "done"
    /\ UNCHANGED <<build, SERPAPI_KEY, tinput, sent, status, raw, matched>>
    /\ UNCHANGED <<ovars, gvars, fvars, timer, waited, hav, mvars, svars>>

\* time passes while the request to SerpApi is being answered
SerpTick ==
    /\ tpc \in {"fetch", "text", "json"}
    /\ waited < FetchTimeoutMs
    /\ waited' = waited + TimerTickMs
    /\ timer' = IF timer > 0 THEN Max(0, timer - TimerTickMs) ELSE timer
    /\ UNCHANGED <<build, SERPAPI_KEY, tpc, tinput, sent, status, upstream, raw, matched,
                   response>>
    /\ UNCHANGED <<ovars, gvars, fvars, hav, mvars, svars>>

NextTools ==
    \/ \E q \in UserQueries, lim \in Limits : LocateAtms(q, lim)
    \/ SerpTick
    \/ \E s \in SerpStatuses : SerpFetchResolve(s)
    \/ SerpFetchReject
    \/ SerpFetchAbort
    \/ \E body \in SerpBodies : SerpText(body)
    \/ \E data \in SerpData : SerpJson(data)
    \/ SerpJsonReject
    \/ \E lim \in Limits : FindTool(lim)
    \/ \E data \in OverpassData : FindToolReturned(data)
    \/ \E s \in Statuses \ {200} : FindToolRaised("http", OverpassError(s))
    \/ FindToolRaised("network", NetworkError)
    \/ FindToolRaised("badjson", ParseError)

\* ---- haversineMeters on its own
Coords == (0 - MaxCoord)..MaxCoord
Points == [lat : Coords, lon : Coords]

\* the pairs the distance is defined for here: two points on one meridian, or
\* two points on the equator
PointPairs ==
    {pr \in Points \X Points : pr[1].lon = pr[2].lon \/ (pr[1].lat = 0 /\ pr[2].lat = 0)}

NoDistances == [ab |-> 0, ba |-> 0, aa |-> 0, bb |-> 0, self_m |-> 0]

IdleHav == hav = [pc |-> "off", a |-> [lat |-> 0, lon |-> 0], b |-> [lat |-> 0, lon |-> 0],
                  d |-> NoDistances]

InitHav ==
    \E pr \in PointPairs : hav = [pc |-> "ready", a |-> pr[1], b |-> pr[2], d |-> NoDistances]

\* haversineMeters for the pair in both orders and for each point with itself,
\* and the item that findAtms builds for a node at a when the origin is a
Haversine ==
    /\ hav.pc = "ready"
    /\ hav' = [hav EXCEPT
                  !.pc = "done",
                  !.d = [ab |-> haversineMeters(hav.a.lat, hav.a.lon, hav.b.lat, hav.b.lon),
                         ba |-> haversineMeters(hav.b.lat, hav.b.lon, hav.a.lat, hav.a.lon),
                         aa |-> haversineMeters(hav.a.lat, hav.a.lon, hav.a.lat, hav.a.lon),
                         bb |-> haversineMeters(hav.b.lat, hav.b.lon, hav.b.lat, hav.b.lon),
                         self_m |-> MapElement(hav.a.lat, hav.a.lon,
                                               [type |-> "node", lat |-> Num(hav.a.lat),
                                                lon |-> Num(hav.a.lon), center |-> FALSE,
                                                clat |-> Undefined, clon |-> Undefined,
                                                id |-> 1]).distance_m]]
    /\ UNCHANGED <<ovars, gvars, fvars, tvars, mvars, svars>>

NextHav == Haversine

\* ---- the /mcp endpoint: getOrCreateTransport and app.all("/mcp")
Requests == 1..NumRequests
\* a session id sent by the client, or none (null)
ClientIds == {[src |-> "client", n |-> i] : i \in 1..NumClientIds}
NoSessionId == [src |-> "none", n |-> 0]
\* crypto.randomUUID(): a value no other call returns
RandomUuid(r) == [src |-> "uuid", n |-> r]
Methods == {"GET", "POST", "DELETE"}

\* Map.prototype.set and Map.prototype.delete
MapSet(m, k, v) == [x \in DOMAIN m \cup {k} |-> IF x = k THEN v ELSE m[x]]
MapDelete(m, k) == [x \in DOMAIN m \ {k} |-> m[x]]

IdleRequest == [pc |-> "idle", sid |-> NoSessionId, method |-> "", own |-> 0, served |-> 0,
                code |-> 0]

IdleMcp ==
    /\ sessions = <<>>
    /\ mreq = [r \in Requests |-> [IdleRequest EXCEPT !.pc = "off"]]
    /\ created = <<>>

InitMcp ==
    /\ sessions = <<>>
    /\ mreq = [r \in Requests |-> IdleRequest]
    /\ created = <<>>

\* a request arrives: getOrCreateTransport up to await mcpServer.connect(transport),
\* or, for a registered id, on to await transport.handleRequest(...)
McpRequest(r, given, method) ==
    /\ mreq[r].pc = "idle"
    /\ \A q \in Requests : q < r => mreq[q].pc # "idle"     \* requests are numbered in order
    /\ LET sid == IF given = NoSessionId THEN RandomUuid(r) ELSE given
       IN  IF sid \notin DOMAIN sessions
           THEN /\ created' = Append(created, [sid |-> sid, by |-> r])
                /\ mreq' = [mreq EXCEPT ![r] = [pc |-> "connect", sid |-> sid,
                                                method |-> method, own |-> Len(created) + 1,
                                                served |-> 0, code |-> 0]]
           ELSE /\ mreq' = [mreq EXCEPT ![r] = [pc |-> "handle", sid |-> sid,
                                                method |-> method, own |-> 0,
                                                served |-> sessions[sid], code |-> 0]]
                /\ UNCHANGED created
    /\ UNCHANGED sessions
    /\ UNCHANGED <<ovars, gvars, fvars, tvars, hav, svars>>

\* await mcpServer.connect(transport) resolves: sessions.set, sessions.get, then
\* on to await transport.handleRequest(...)
McpConnected(r) ==
    /\ mreq[r].pc = "connect"
    /\ sessions' = MapSet(sessions, mreq[r].sid, mreq[r].own)
    /\ mreq' = [mreq EXCEPT ![r].pc = "handle", ![r].served = sessions'[mreq[r].sid]]
    /\ UNCHANGED created
    /\ UNCHANGED <<ovars, gvars, fvars, tvars, hav, svars>>

\* await mcpServer.connect(transport) rejects: the catch block answers 500
McpConnectRejected(r) ==
    /\ mreq[r].pc = "connect"
    /\ mreq' = [mreq EXCEPT ![r].pc = "done", ![r].code = 500]
    /\ UNCHANGED <<sessions, created>>
    /\ UNCHANGED <<ovars, gvars, fvars, tvars, hav, svars>>

\* await transport.handleRequest(...) resolves; DELETE removes the session
McpHandled(r) ==
    /\ mreq[r].pc = "handle"
    /\ sessions' = IF mreq[r].method = "DELETE" THEN MapDelete(sessions, mreq[r].sid)
                   ELSE sessions
    /\ mreq' = [mreq EXCEPT ![r].pc = "done", ![r].code = 200]
    /\ UNCHANGED created
    /\ UNCHANGED <<ovars, gvars, fvars, tvars, hav, svars>>

\* await transport.handleRequest(...) rejects: the catch block answers 500
McpHandleRejected(r) ==
    /\ mreq[r].pc = "handle"
    /\ mreq' = [mreq EXCEPT ![r].pc = "done", ![r].code = 500]
    /\ UNCHANGED <<sessions, created>>
    /\ UNCHANGED <<ovars, gvars, fvars, tvars, hav, svars>>

NextMcp ==
    \/ \E r \in Requests, given \in ClientIds \cup {NoSessionId}, method \in Methods :
          McpRequest(r, given, method)
    \/ \E r \in Requests : McpConnected(r)
    \/ \E r \in Requests : McpConnectRejected(r)
    \/ \E r \in Requests : McpHandled(r)
    \/ \E r \in Requests : McpHandleRejected(r)

\* ---- GET /sse and POST /messages of src/server.js
Conns == 1..NumConns
\* transport.sessionId of connection c is c; a POST names one of them or none (0)
PostIds == Conns \cup {0}
Accepted == {"accepted", "connected", "failed"}
OpenConns == {c \in Conns : conn[c] \in Accepted}

IdleSse ==
    /\ transports = <<>>
    /\ conn = [c \in Conns |-> "off"]
    /\ posts = <<>>

InitSse ==
    /\ transports = <<>>
    /\ conn = [c \in Conns |-> "none"]
    /\ posts = <<>>

\* GET /sse: new transport, transports.set, res.on("close", ...), up to
\* await server.connect(transport)
SseGet(c) ==
    /\ conn[c] = "none"
    /\ \A d \in Conns : d < c => conn[d] # "none"        \* connections are numbered in order
    /\ transports' = MapSet(transports, c, c)
    /\ conn' = [conn EXCEPT ![c] = "accepted"]
    /\ UNCHANGED posts
    /\ UNCHANGED <<ovars, gvars, fvars, tvars, hav, mvars>>

\* await server.connect(transport) resolves
SseConnected(c) ==
    /\ conn[c] = "accepted"
    /\ conn' = [conn EXCEPT ![c] = "connected"]
    /\ UNCHANGED <<transports, posts>>
    /\ UNCHANGED <<ovars, gvars, fvars, tvars, hav, mvars>>

\* await server.connect(transport) rejects: the catch block answers 500 when it
\* still can
SseConnectRejected(c) ==
    /\ conn[c] = "accepted"
    /\ conn' = [conn EXCEPT ![c] = "failed"]
    /\ UNCHANGED <<transports, posts>>
    /\ UNCHANGED <<ovars, gvars, fvars, tvars, hav, mvars>>

\* faulty variant: the close event leaves the entry in place
SseCloseKeepsEntry(c) ==
    /\ conn[c] \in Accepted
    /\ conn' = [conn EXCEPT ![c] = "closed"]
    /\ UNCHANGED <<transports, posts>>
    /\ UNCHANGED <<ovars, gvars, fvars, tvars, hav, mvars>>

\* the close event of the response: transports.delete(transport.sessionId)
SseClose(c) ==
    /\ conn[c] \in Accepted
    /\ transports' = MapDelete(transports, c)
    /\ conn' = [conn EXCEPT ![c] = "closed"]
    /\ UNCHANGED posts
    /\ UNCHANGED <<ovars, gvars, fvars, tvars, hav, mvars>>

\* POST /messages?sessionId=sid: 400 without a transport, else up to
\* await transport.handlePostMessage(req, res, req.body)
PostMessages(sid) ==
    /\ Len(posts) < MaxPosts
    /\ \A i \in DOMAIN posts : posts[i].code # 0          \* one POST at a time
    /\ posts' = Append(posts,
                    IF sid \notin DOMAIN transports
                    THEN [sid |-> sid, code |-> 400, handed |-> 0, openAt |-> OpenConns]
                    ELSE [sid |-> sid, code |-> 0, handed |-> transports[sid],
                          openAt |-> OpenConns])
    /\ UNCHANGED <<transports, conn>>
    /\ UNCHANGED <<ovars, gvars, fvars, tvars, hav, mvars>>

\* await transport.handlePostMessage(...) is over: the transport has answered
\* (202), or it threw and the catch block answers 500
PostHandled(code) ==
    /\ posts # <<>>
    /\ posts[Len(posts)].code = 0
    /\ posts' = [posts EXCEPT ![Len(posts)].code = code]
    /\ UNCHANGED <<transports, conn>>
    /\ UNCHANGED <<ovars, gvars, fvars, tvars, hav, mvars>>

NextSse ==
    \/ \E c \in Conns : SseGet(c)
    \/ \E c \in Conns : SseConnected(c)
    \/ \E c \in Conns : SseConnectRejected(c)
    \/ \E c \in Conns : SseClose(c)
    \/ \E sid \in PostIds : PostMessages(sid)
    \/ \E code \in {202, 500} : PostHandled(code)

PipelineIdle == IdleRank /\ IdleTools /\ IdleHav /\ IdleMcp /\ IdleSse

Init == InitOverpass /\ InitGeo /\ PipelineIdle

\* the POI endpoint pool on its own
SpecOverpass == Init /\ [][NextOverpass]_vars

\* the geocoder on its own
SpecGeo == Init /\ [][NextGeo]_vars

\* the ranking of findAtms / findBoaAtms over the answers of the upstream
InitRanking == InitOverpass /\ InitGeo /\ InitRank /\ IdleTools /\ IdleHav /\ IdleMcp /\ IdleSse
SpecRank == InitRanking /\ [][NextRank]_vars

\* one tool request, from the call of the handler to its answer
InitRequest == InitOverpass /\ InitGeo /\ IdleRank /\ InitTools /\ IdleHav /\ IdleMcp /\ IdleSse
SpecTools == InitRequest /\ [][NextTools]_vars

\* haversineMeters over pairs of points
InitDistance == InitOverpass /\ InitGeo /\ IdleRank /\ IdleTools /\ InitHav /\ IdleMcp /\ IdleSse
SpecHaversine == InitDistance /\ [][NextHav]_vars

\* the requests to /mcp of the 1.0.0 server
InitSessions == InitOverpass /\ InitGeo /\ IdleRank /\ IdleTools /\ IdleHav /\ InitMcp /\ IdleSse
SpecMcp == InitSessions /\ [][NextMcp]_vars

\* the SSE connections and the POSTs of src/server.js
InitRegistry ==
    InitOverpass /\ InitGeo /\ IdleRank /\ IdleTools /\ IdleHav /\ IdleMcp /\ InitSse
SpecSse == InitRegistry /\ [][NextSse]_vars

(***************************************************************************)
(* Properties of overpassQuery (checked under SpecOverpass)                *)
(***************************************************************************)
\* the request just sent extends the current invocation's history
SentAnother == calls' = calls /\ Len(reqLog) >= 1 /\ Len(reqLog') = Len(reqLog) + 1

TransientOutcome(o) == o.k = "http" /\ o.s \in {429, 504}

\* C1: an attempt is followed by another attempt on the same endpoint only
\* when it returned HTTP 429 or 504; after any other non-success status the
\* next request goes to the next endpoint.  (Stated for attempts that were
\* answered with a non-success status.)
C1_RetryOnlyWhenTransient ==
    [][SentAnother /\ lastOutcome'.k = "http" =>
         LET prev == reqLog[Len(reqLog)]
             new == reqLog'[Len(reqLog')]
         IN /\ (new.ep = prev.ep => TransientOutcome(lastOutcome'))
            /\ (~TransientOutcome(lastOutcome') => new.ep = prev.ep + 1)]_vars

\* C4: overpassQuery raises only if every attempt on every endpoint failed; a
\* parsed HTTP 200 response anywhere in the sequence is returned, no error.
C4_RaisesOnlyIfAllFailed ==
    /\ opc = "raised" => nOk = 0 /\ Len(reqLog) = 3 * 3 /\ failKinds # {}
    /\ nOk > 0 => opc = "returned" /\ oresult = lastOutcome.b /\ oresult \in JsonBodies

\* endpoint 1 answered 504 three times, endpoint 2 answered 200 at once
C4_Witness ==
    /\ opc = "returned"
    /\ Len(reqLog) = 4
    /\ reqLog[4].ep = 2
    /\ failKinds = {HttpFail(504)}
    /\ oresult = "dataA"

\* C5: once an attempt returned a parsed response, no further request is sent
\* in the same invocation and the value returned is exactly that response.
C5_FirstSuccessWins ==
    [][lastOutcome'.k = "ok" =>
         /\ opc' = "returned"
         /\ oresult' = lastOutcome'.b
         /\ (lastOutcome.k = "ok" => reqLog' = reqLog /\ oresult' = oresult)]_vars

\* success on the first endpoint: the two remaining endpoints were not asked
C5_Witness ==
    /\ opc = "returned"
    /\ lastOutcome.k = "ok"
    /\ Len(reqLog) = 2
    /\ \A i \in DOMAIN reqLog : reqLog[i].ep = 1

AttemptsOn(e) == Cardinality({i \in DOMAIN reqLog : reqLog[i].ep = e})

\* C6: every invocation contacts the endpoints in list order from the first
\* one; endpoint i+1 is asked only after endpoint i got its last attempt, and
\* no endpoint is asked again after a later one.
C6_FixedEndpointOrder ==
    /\ reqLog # <<>> => reqLog[1].ep = 1
    /\ \A i \in 1..(Len(reqLog) - 1) :
          /\ reqLog[i + 1].ep \in {reqLog[i].ep, reqLog[i].ep + 1}
          /\ reqLog[i + 1].ep # reqLog[i].ep => AttemptsOn(reqLog[i].ep) = 3
    /\ \A i, j \in DOMAIN reqLog : i < j => reqLog[i].ep <= reqLog[j].ep

\* the previous invocation was answered by endpoint 2; this one started at
\* endpoint 1 again and has moved on to endpoint 2
C6_Witness ==
    /\ calls = 2
    /\ prevEnd = [pc |-> "returned", ep |-> 2]
    /\ Len(reqLog) = 4
    /\ reqLog[4].ep = 2

\* number of requests to the endpoint of request i, up to and including i
Rank(i) == Cardinality({j \in 1..i : reqLog[j].ep = reqLog[i].ep})

\* C7: at most 3 attempts per endpoint, preceded by waits of 0, 600 and
\* 1200 ms; at most 9 requests, after which the invocation is over.
C7_BoundedAttempts ==
    /\ \A e \in 1..NumEndpoints : AttemptsOn(e) <= 3
    /\ \A i \in DOMAIN reqLog :
          Rank(i) \in 1..3 /\ reqLog[i].wait = <<0, 600, 1200>>[Rank(i)]
    /\ Len(reqLog) <= 9
    /\ Len(reqLog) = 9 => opc \in {"fetch", "text", "json", "returned", "raised"}

C7_Witness ==
    /\ opc = "raised"
    /\ Len(reqLog) = 9
    /\ reqLog[9] = [ep |-> 3, wait |-> 1200]

\* C8: when all attempts failed, the error raised is the error of the final
\* attempt on the last endpoint, whatever its kind; the generic error is
\* raised only if no error was ever recorded.
C8_LastErrorSurfaced ==
    opc = "raised" =>
        /\ reqLog[Len(reqLog)].ep = NumEndpoints
        /\ oresult.id = Len(reqLog)
        /\ lastOutcome.k = "http" =>
              oresult.kind = "http" /\ oresult.status = lastOutcome.s
        /\ lastOutcome.k = "neterr" => oresult.kind = "fetch"
        /\ lastOutcome.k = "badjson" => oresult.kind = "json"
        /\ lastOutcome.k \in {"http", "neterr", "badjson"}
        /\ oresult = GenericErr => failKinds = {}

\* the final attempt failed with a non-retryable status after earlier
\* attempts had failed with a network exception and with a retryable status
C8_Witness ==
    /\ opc = "raised"
    /\ oresult.kind = "http"
    /\ oresult.status = 500
    /\ NetFail \in failKinds
    /\ HttpFail(429) \in failKinds

(***************************************************************************)
(* Properties of geocodePlace (checked under SpecGeo)                      *)
(***************************************************************************)
\* a query after trim and lower-casing
Normalized(q) == ToLowerCase(Trim(q))

Started(p) == gpc[p] # "idle"
MadeNetCall(p) == \E i \in DOMAIN netCalls : netCalls[i].p = p

\* C2: with concurrent invocations for distinct uncached queries, any two
\* network calls to the geocoder start at least 1100 ms apart.
C2_GlobalThrottle ==
    (\A p, r \in Procs :
        Started(p) /\ Started(r) /\ p # r => Normalized(gquery[p]) # Normalized(gquery[r]))
    => \A i, j \in DOMAIN netCalls :
          i < j => netCalls[j].at - netCalls[i].at >= 1100

\* C3 (as stated): two invocations whose queries are equal after
\* normalization make at most one network call in total, overlapping or not
\* and whatever the outcome of the first.
C3_AtMostOneCallPerKey ==
    \A i, j \in DOMAIN netCalls :
        i # j => Normalized(netCalls[i].q) # Normalized(netCalls[j].q)

\* C3 (amended): when an invocation starts after an invocation with the same
\* normalized query has returned a result, it makes no network call, also
\* when the two queries differ in case or surrounding whitespace.
C3_CachedAfterResult ==
    \A p, r \in Procs :
        (/\ Started(r)
         /\ p \in doneBefore[r]
         /\ gpc[p] = "done"
         /\ Normalized(gquery[p]) = Normalized(gquery[r]))
        => ~MadeNetCall(r)

\* a second invocation with a differently written, equivalent query was
\* served from the entry the first one stored after its network call
C3_Witness ==
    \E p, r \in Procs :
        /\ p \in doneBefore[r]
        /\ gpc[p] = "done"
        /\ gpc[r] = "done"
        /\ MadeNetCall(p)
        /\ ~MadeNetCall(r)
        /\ gquery[p] # gquery[r]
        /\ Normalized(gquery[p]) = Normalized(gquery[r])
        /\ Len(netCalls) = 1

\* C9: when an invocation starts after another one returned and both go to
\* the network, the second network call starts at least 1100 ms after the first.
C9_SequentialCallsThrottled ==
    \A i, j \in DOMAIN netCalls :
        netCalls[i].p \in doneBefore[netCalls[j].p]
            => netCalls[j].at - netCalls[i].at >= 1100

C9_Witness ==
    \E i, j \in DOMAIN netCalls :
        /\ netCalls[i].p \in doneBefore[netCalls[j].p]
        /\ Normalized(netCalls[i].q) # Normalized(netCalls[j].q)
        /\ netCalls[j].at - netCalls[i].at = 1100

\* C10: an invocation whose normalized key is cached returns the cached value
\* at once: no throttle wait, no network call, cache and lastNominatimCallAt
\* unchanged.
C10_CacheHitIsPure ==
    [][\A p \in Procs :
         (/\ gpc[p] = "idle"
          /\ gpc'[p] # "idle"
          /\ Normalized(gquery'[p]) \in DOMAIN geoCache)
         => /\ gpc'[p] = "done"
            /\ gret'[p] = geoCache[Normalized(gquery'[p])]
            /\ geoCache' = geoCache
            /\ lastNominatimCallAt' = lastNominatimCallAt
            /\ netCalls' = netCalls
            /\ now' = now]_vars

\* a cache hit inside the throttle interval of the preceding network call
C10_Witness ==
    \E p \in Procs :
        /\ gpc[p] = "done"
        /\ ~MadeNetCall(p)
        /\ Normalized(gquery[p]) \in DOMAIN geoCache
        /\ now - lastNominatimCallAt < 1100

SameKey(p, r) == Normalized(gquery[p]) = Normalized(gquery[r])

\* the invocation got an empty list from the upstream and returned not-found
GotEmpty(p) == gpc[p] = "done" /\ MadeNetCall(p) /\ gret[p] = Null

\* C11 (as stated): after the upstream answered an invocation with an empty
\* list, every later invocation with that key returns not-found without a
\* network call.
C11_LaterCallsNotFound ==
    \A p, r \in Procs :
        (GotEmpty(p) /\ p \in doneBefore[r] /\ SameKey(p, r) /\ Finished(r))
        => gpc[r] = "done" /\ gret[r] = Null /\ ~MadeNetCall(r)

\* C11 (amended): an empty answer stores null under the normalized key and
\* every later invocation with that key is a cache hit without a network
\* call; it returns not-found unless another invocation for the same key has
\* stored its own answer over the entry.
C11_NullEntryIsHit ==
    \A p, r \in Procs :
        (GotEmpty(p) /\ p \in doneBefore[r] /\ SameKey(p, r) /\ Started(r))
        => /\ Normalized(gquery[p]) \in DOMAIN geoCache
           /\ gpc[r] = "done"
           /\ ~MadeNetCall(r)
           /\ (\A x \in Procs \ {p} : SameKey(x, p) /\ MadeNetCall(x) => gpc[x] # "done")
                 => gret[r] = Null /\ geoCache[Normalized(gquery[p])] = Null

\* not-found was cached by the first invocation and served to a later one
C11_Witness ==
    \E p, r \in Procs :
        /\ GotEmpty(p)
        /\ p \in doneBefore[r]
        /\ SameKey(p, r)
        /\ gpc[r] = "done"
        /\ gret[r] = Null
        /\ ~MadeNetCall(r)
        /\ Len(netCalls) = 1

(***************************************************************************)
(* Properties of findAtms / findBoaAtms (checked under SpecRank)           *)
(***************************************************************************)
\* the element has a numeric latitude and longitude where the code looks
HasCoords(el) ==
    IF el.type = "node"
    THEN el.lat.t = "number" /\ el.lon.t = "number"
    ELSE el.center /\ el.clat.t = "number" /\ el.clon.t = "number"

ValidIdx == {i \in DOMAIN elements : HasCoords(elements[i])}

\* rounded distance of element i from the origin
ElDist(i) ==
    LET el == elements[i]
        la == IF el.type = "node" THEN el.lat.v ELSE el.clat.v
        lo == IF el.type = "node" THEN el.lon.v ELSE el.clon.v
    IN MathRound(haversineMeters(origin.lat, origin.lon, la, lo))

ItemIds == {items[k].osm.id : k \in DOMAIN items}

Clamped(n) == IF n < 1 THEN 1 ELSE IF n > 25 THEN 25 ELSE n

\* C12: for limit in [1,25] findAtms returns the first min(limit, n) entries
\* of the n elements with coordinates sorted by non-decreasing rounded
\* distance: no returned item is farther than an omitted one.
C12_SortedThenTruncated ==
    (fpc = "findAtms" /\ limit \in 1..25) =>
        /\ Len(items) = Min(limit, Cardinality(ValidIdx))
        /\ Cardinality(ItemIds) = Len(items)
        /\ \A k \in DOMAIN items :
              /\ items[k].osm.id \in ValidIdx
              /\ items[k].distance_m = ElDist(items[k].osm.id)
        /\ \A k \in 1..(Len(items) - 1) : items[k].distance_m <= items[k + 1].distance_m
        /\ \A i \in ValidIdx \ ItemIds, k \in DOMAIN items : items[k].distance_m <= ElDist(i)

\* the first element of the answer has coordinates but is too far to be kept
C12_Witness ==
    /\ fpc = "findAtms"
    /\ limit \in 1..25
    /\ Len(items) = limit
    /\ 1 \in ValidIdx \ ItemIds
    /\ \E k \in DOMAIN items : items[k].distance_m < ElDist(1)

\* C14: an element without numeric latitude and longitude never appears in
\* the result of findAtms / findBoaAtms and does not use up a limit slot.
C14_NoCoordsExcluded ==
    fpc \in {"findAtms", "findBoaAtms"} =>
        /\ \A k \in DOMAIN items : items[k].osm.id \in ValidIdx
        /\ Len(items) = Min(Clamped(limit), Cardinality(ValidIdx))

\* the answer starts with an element without coordinates and still limit
\* items are returned
C14_Witness ==
    /\ fpc = "findBoaAtms"
    /\ elements # <<>>
    /\ 1 \notin ValidIdx
    /\ limit = 2
    /\ Len(items) = 2
    /\ Len(elements) = 3

(***************************************************************************)
(* Properties of the tools                                                 *)
(***************************************************************************)
\* a locate_atms request whose upstream answer was parsed and shaped
Answered == build \in SerpBuilds /\ tpc = "done" /\ upstream = "ok"

\* the number of records of the upstream answer that can be returned at all
Survivors ==
    IF build \in SerpBuilds THEN Cardinality(matched)
    ELSE Cardinality({i \in DOMAIN raw : HasCoords(raw[i])})

\* the position in raw of the k-th record the brand filter let through
KthMatched(k) == CHOOSE i \in matched : Cardinality({j \in matched : j <= i}) = k

NumericPair(gps) == gps.latitude.t = "number" /\ gps.longitude.t = "number"

C15_CountWithinClamp ==
    tpc = "done" /\ response.kind = "result" =>
        /\ response.count <= Clamped(tinput.limit)
        /\ response.count = Min(Clamped(tinput.limit), Survivors)
        /\ Len(response.items) = response.count

\* a limit above 25 met by more than 25 returnable records
C15_Witness ==
    /\ tpc = "done"
    /\ response.kind = "result"
    /\ tinput.limit > 25
    /\ Survivors > 25
    /\ response.count = 25

\* C16: when the upstream call of a request fails (non-2xx status, network
\* error, timeout, unreadable body) the handler gives an error and never a
\* result; a result with count = 0 is given only when the upstream call
\* succeeded and no record survived
C16_FailureIsNotEmptyResult ==
    tpc = "done" =>
        /\ upstream \in {"http", "network", "timeout", "badjson"} =>
              response.kind \in {"error", "rejected"}
        /\ response.kind = "result" /\ response.count = 0 =>
              upstream = "ok" /\ Survivors = 0

\* a locate_atms request answered after a non-2xx status of the upstream
C16_Witness ==
    /\ tpc = "done"
    /\ build \in SerpBuilds
    /\ upstream = "http"
    /\ response.kind = "error"
    /\ response.message.status = status

\* C17: with SERPAPI_KEY unset no request is ever sent to the upstream, the
\* search is not attempted again, and the caller of locate_atms gets the error
\* response that carries the missing-key message
C17_MissingKeyFailsBeforeRequest ==
    build \in SerpBuilds /\ SERPAPI_KEY.t = "undefined" =>
        /\ sent = <<>>
        /\ upstream = "none"
        /\ tpc \in {"off", "idle", "done"}
        /\ tpc = "done" =>
              /\ response.kind = "error"
              /\ response.message.text \in
                    {"Missing SERPAPI_KEY env var",
                     "Missing SERPAPI_KEY env var. Set it before running the server."}

\* a locate_atms request answered while the key is unset
C17_Witness ==
    /\ build \in SerpBuilds
    /\ SERPAPI_KEY.t = "undefined"
    /\ tpc = "done"
    /\ response.kind = "error"

\* "Bank of America ATM near " followed by the user text, character by character
IsRewriteOf(q, userText) ==
    /\ Len(q) = 25 + Len(userText)
    /\ SubSeq(q, 1, 25) = <<"B", "a", "n", "k", " ", "o", "f", " ", "A", "m", "e", "r", "i", "c", "a", " ", "A", "T", "M", " ", "n", "e", "a", "r", " ">>
    /\ SubSeq(q, 26, Len(q)) = userText

\* C18: the query sent to the brand-search upstream is exactly
\* "Bank of America ATM near <user text>" for every user text, and the
\* rewritten_query of a successful result is the query that was sent
C18_QueryRewritten ==
    build \in SerpBuilds =>
        /\ \A n \in DOMAIN sent : IsRewriteOf(sent[n].q, tinput.query)
        /\ response.kind = "result" =>
              /\ Len(sent) = 1
              /\ response.rewritten_query = sent[1].q

\* a successful result for a user text that names no bank and no ATM
C18_Witness ==
    /\ build \in SerpBuilds
    /\ response.kind = "result"
    /\ tinput.query = <<"n", "y", "c">>
    /\ Len(sent) = 1

\* two characters that are the same letter in either case
LetterPairs == {<<Upper[n], Lower[n]>> : n \in 1..26}
SameLetter(a, b) == a = b \/ <<a, b>> \in LetterPairs \/ <<b, a>> \in LetterPairs

\* word occurs in text, in any letter case
ContainsAnyCase(text, word) ==
    \E i \in 1..(Len(text) - Len(word) + 1) :
        \A k \in 1..Len(word) : SameLetter(text[i + k - 1], word[k])

\* the text fields the matcher checks; the category list is read as one text
\* with its entries separated by a space
FieldTexts(r) ==
    {r.title, r.name, r.description, r.type, r.address, Join(r.categories, <<" ">>)}

BrandAliases == { <<"b", "a", "n", "k", " ", "o", "f", " ", "a", "m", "e", "r", "i", "c", "a">>, <<"b", "o", "f", "a">>, <<"b", "a", "n", "k", "o", "f", "a", "m", "e", "r", "i", "c", "a">> }

HasAlias(r) == \E t \in FieldTexts(r), a \in BrandAliases : ContainsAnyCase(t, a)
HasWord(r, w) == \E t \in FieldTexts(r) : ContainsAnyCase(t, w)

\* C19: a record whose checked text fields contain a brand alias and "atm", in
\* any letter case, passes the brand filter; a record whose fields contain no
\* brand alias does not, whatever other keywords it has; every item of a
\* text-mode result comes from a record with a brand alias
C19_BrandAliasRequired ==
    Answered =>
        /\ \A i \in DOMAIN raw :
              /\ HasAlias(raw[i]) /\ HasWord(raw[i], <<"a", "t", "m">>) => i \in matched
              /\ ~HasAlias(raw[i]) => i \notin matched
        /\ \A k \in DOMAIN response.items :
              \E i \in DOMAIN raw :
                  /\ raw[i].data_id = response.items[k].source.data_id
                  /\ HasAlias(raw[i])

\* an upper-case alias record that passed next to an ATM of another brand that
\* did not
C19_Witness ==
    /\ Answered
    /\ response.count >= 1
    /\ \E i \in matched : raw[i].title = <<"B", "A", "N", "K", " ", "O", "F", " ", "A", "M", "E", "R", "I", "C", "A">>
    /\ \E j \in DOMAIN raw :
          /\ ~HasAlias(raw[j])
          /\ HasWord(raw[j], <<"a", "t", "m">>)
          /\ HasWord(raw[j], <<"c", "a", "s", "h">>)
          /\ j \notin matched

\* C20: a record with a brand alias that contains "drive" or "cash" but not
\* "atm" is accepted by the brand matcher
C20_ContextKeywordAccepted ==
    Answered =>
        \A i \in DOMAIN raw :
            /\ HasAlias(raw[i])
            /\ HasWord(raw[i], <<"d", "r", "i", "v", "e">>) \/ HasWord(raw[i], <<"c", "a", "s", "h">>)
            /\ ~HasWord(raw[i], <<"a", "t", "m">>)
            => i \in matched

(***************************************************************************)
(* Further properties of the geocoder and of the ranking                   *)
(***************************************************************************)
\* the time at which invocation p started its network call
NetAt(p) == netCalls[CHOOSE i \in DOMAIN netCalls : netCalls[i].p = p].at

\* an invocation whose query is empty after trimming
Blank(p) == Started(p) /\ Trim(gquery[p]) = <<>>

\* C21: a query that is only whitespace is rejected: no network call, no
\* throttle wait, and no cache entry under the empty key
C21_BlankQueryRejected ==
    \A p \in Procs :
        Blank(p) =>
            /\ ~MadeNetCall(p)
            /\ gpc[p] # "sleep"
            /\ ~CacheHas(geoCache, <<>>)

\* some invocation with the same key has put a result from the network into
\* the cache
Populated(p) ==
    \E r \in Procs : SameKey(p, r) /\ gpc[r] = "done" /\ MadeNetCall(r)

\* C28: a geocodePlace call that fails after its network call writes no cache
\* entry, so unless another call with the same key has succeeded the key is not
\* cached and a later call with that key goes to the network again;
\* lastNominatimCallAt is at or past the start of the failed call, and a call
\* made after the failure starts its own network call at least 1100 ms after
\* the failed one
C28_FailedCallNotCached ==
    \A p \in Procs :
        gpc[p] = "failed" =>
            /\ MadeNetCall(p)
            /\ lastNominatimCallAt >= NetAt(p)
            /\ ~Populated(p) => ~CacheHas(geoCache, Normalized(gquery[p]))
            /\ \A r \in Procs :
                  p \in doneBefore[r] /\ SameKey(p, r) =>
                      /\ gpc[r] = "done" /\ ~Populated(p) => MadeNetCall(r)
                      /\ MadeNetCall(r) => NetAt(r) - NetAt(p) >= 1100

\* a call failed, and a later call with the same key has gone to the network
C28_Witness ==
    \E p, r \in Procs :
        /\ gpc[p] = "failed"
        /\ p \in doneBefore[r]
        /\ SameKey(p, r)
        /\ MadeNetCall(r)
        /\ NetAt(r) - NetAt(p) = 1100

\* C24: two items of the result of findAtms with equal rounded distance are
\* in the order their elements had in the upstream answer
C24_EqualDistancesKeepOrder ==
    fpc = "findAtms" =>
        \A k, l \in DOMAIN items :
            k < l /\ items[k].distance_m = items[l].distance_m
                => items[k].osm.id < items[l].osm.id

\* a result holding two items at the same rounded distance that come from
\* different places
C24_Witness ==
    /\ fpc = "findAtms"
    /\ \E k, l \in DOMAIN items :
          /\ k < l
          /\ items[k].distance_m = items[l].distance_m
          /\ items[k].location # items[l].location

(***************************************************************************)
(* Further properties of locate_atms                                       *)
(***************************************************************************)
SaysTimedOut == response.kind = "error" /\ response.message = TimedOutMsg

\* C22: in server.js a brand-search call that has not answered 8000 ms after
\* it was sent is aborted and the error response carries the timeout message;
\* no other failure carries that message, and a call that answered in time is
\* never reported as a timeout
C22_TimeoutReportedApart ==
    build = "server.js" /\ tpc # "off" =>
        /\ tpc \in {"fetch", "text", "json"} /\ waited >= FetchTimeoutMs =>
              tpc = "fetch" /\ timer = 0
        /\ tpc = "done" /\ upstream \in {"ok", "http", "network", "badjson"} =>
              waited < FetchTimeoutMs
        /\ tpc = "done" => (SaysTimedOut <=> upstream = "timeout")
        /\ upstream = "timeout" => waited >= FetchTimeoutMs /\ status = 0

\* C23: the maps_link of every item is the place-identifier link when the
\* record has a place_id, else the coordinate link when latitude and longitude
\* are both numbers, else the record's directions link, else null; no other
\* field of the record is used
C23_LinkPreference ==
    Answered =>
        \A k \in DOMAIN response.items :
            LET r == raw[KthMatched(k)]
                ml == response.items[k].maps_link
            IN  IF r.place_id # ""
                THEN ml.kind = "query_place_id" /\ ml.place = r.place_id
                ELSE IF NumericPair(r.gps)
                THEN /\ ml.kind = "query"
                     /\ ml.lat = r.gps.latitude.v
                     /\ ml.lon = r.gps.longitude.v
                ELSE IF r.directions_link # ""
                THEN ml.kind = "link" /\ ml.url = r.directions_link
                ELSE ml.kind = "null"

TransportsFor(sid) == {i \in DOMAIN created : created[i].sid = sid}
Deleted(sid) == \E r \in Requests : mreq[r].sid = sid /\ mreq[r].method = "DELETE"
                                     /\ mreq[r].pc # "idle"

\* C26: for each session id (that no request has asked to delete) at most one
\* transport is ever created and connected, even when requests with the same
\* unregistered id overlap at the await on connect, and all requests with
\* that id are served by the same transport
C26_OneTransportPerSession ==
    \A sid \in ClientIds :
        ~Deleted(sid) =>
            /\ Cardinality(TransportsFor(sid)) <= 1
            /\ \A q, r \in Requests :
                  /\ mreq[q].sid = sid /\ mreq[q].served # 0
                  /\ mreq[r].sid = sid /\ mreq[r].served # 0
                  => mreq[q].served = mreq[r].served

\* C27: the registry of server.js holds exactly the session ids of the SSE
\* connections that were accepted and have not closed; a POST /messages whose
\* sessionId has no open connection (never opened, or closed) is answered 400
\* and handed to no transport, any other POST is handed to the transport of its
\* session
C27_RegistryTracksConnections ==
    /\ DOMAIN transports = OpenConns
    /\ \A c \in DOMAIN transports : transports[c] = c
    /\ \A i \in DOMAIN posts :
          IF posts[i].sid \notin posts[i].openAt
          THEN posts[i].code = 400 /\ posts[i].handed = 0
          ELSE posts[i].code # 400 /\ posts[i].handed = posts[i].sid

\* a POST for a closed session was refused after a POST for an open one was
\* handed on
C27_Witness ==
    \E i, j \in DOMAIN posts :
        /\ i < j
        /\ posts[i].handed # 0
        /\ posts[j].code = 400
        /\ posts[j].sid # 0
        /\ conn[posts[j].sid] = "closed"

====
